---- MODULE Spec2Model ----
(***************************************************************************)
(* A model of the greedy Wordle solver of src/main.cpp: the clue state of  *)
(* a game (Clues / WorldleGame), the feedback update addGuess, the query   *)
(* matches, the branching copy getCopyWithGuess, and the greedy trial      *)
(* runGreedyTrial.                                                         *)
(*                                                                         *)
(* A Word is a sequence of kNumLetters letter codes, indexed 1..5 here and *)
(* 0..4 in the source.  A LetterField (a uint32_t used as a bitset over    *)
(* the letter codes) is modelled as the set of the letter codes whose bit  *)
(* is set: 1 << l is {l}, | is \cup, & is \cap.                            *)
(***************************************************************************)
EXTENDS Integers, Sequences, FiniteSets

\* ------------------------------------------------------------------------
\* Program constants.

kNumLetters == 5

kUnknownLetter == -1

\* constexpr Word first_guess = {17, 14, 0, 19, 4}; // 'roate'
first_guess == <<17, 14, 0, 19, 4>>

Positions == 1..kNumLetters

\* ------------------------------------------------------------------------
\* Bounds of the model, and the words the inputs are drawn from.

\* How many words of PoolSeq the inputs are drawn from.
PoolSize == 5

\* The longest vector handed to addGuesses in one call.
MaxGuessSeq == 2

\* The longest word list (entries) handed to runGreedyTrial.
MaxEntries == 3

\* A trial starts no round once trial_count has reached MaxRounds.
MaxRounds == 3

\* musky, dusky, otter, roate, husky, eerie, tarot, orate, rotor, state:
\* words with a repeated letter (otter), words that share letters at the same
\* and at other positions, words that share none, and three words that the
\* first guess of a trial does not tell apart (musky, dusky, husky).
PoolSeq ==
    << <<12, 20, 18, 10, 24>>,
       << 3, 20, 18, 10, 24>>,
       <<14, 19, 19,  4, 17>>,
       <<17, 14,  0, 19,  4>>,
       << 7, 20, 18, 10, 24>>,
       << 4,  4, 17,  8,  4>>,
       <<19,  0, 17, 14, 19>>,
       <<14, 17,  0, 19,  4>>,
       <<17, 14, 19, 14, 17>>,
       <<18, 19,  0, 19,  4>> >>

\* The words the inputs are drawn from.
Pool == {PoolSeq[k] : k \in 1..PoolSize}

\* The vectors of at most n guesses.
GuessSeqs(n) == UNION {[1..k -> Pool] : k \in 0..n}

\* ------------------------------------------------------------------------
\* Clues and WorldleGame.

\* 1 << letter
Bit(letter) == {letter}

\* The letters of a word, as a LetterField.
LettersOf(word) == UNION {Bit(word[i]) : i \in Positions}

\* Clues::Clues() followed by WorldleGame::WorldleGame(answer).
WorldleGame(answer) ==
    [answer_      |-> answer,
     answer_bits_ |-> UNION {Bit(answer[i]) : i \in Positions},
     match_       |-> [i \in Positions |-> kUnknownLetter],
     wrong_       |-> [i \in Positions |-> {}],
     in_answer_   |-> {}]

\* The value of a session variable that holds no session yet.
NoGame ==
    [answer_ |-> <<>>, answer_bits_ |-> {}, match_ |-> <<>>, wrong_ |-> <<>>,
     in_answer_ |-> {}]

\* addGuessAt with a letter that is in the answer, at another position,
\* forbidden at every position, as an absent letter is.
addGuessAt_ForbidEverywhere(s, guess, i) ==
    LET guess_letter_bit == Bit(guess[i])
        guess_in_answer  == guess_letter_bit \cap s.answer_bits_
        s1 == [s EXCEPT !.in_answer_ = @ \cup guess_in_answer]
    IN  IF guess[i] = s.answer_[i]
        THEN [s1 EXCEPT !.match_[i] = s.answer_[i]]
        ELSE [s1 EXCEPT !.wrong_ = [j \in Positions |-> @[j] \cup guess_letter_bit]]

\* addGuessAt with wrong_[i] = guess_letter_bit in place of wrong_[i] |= it.
addGuessAt_Assign(s, guess, i) ==
    LET guess_letter_bit == Bit(guess[i])
        guess_in_answer  == guess_letter_bit \cap s.answer_bits_
        s1 == [s EXCEPT !.in_answer_ = @ \cup guess_in_answer]
    IN  IF guess[i] = s.answer_[i]
        THEN [s1 EXCEPT !.match_[i] = s.answer_[i]]
        ELSE IF guess_in_answer # {}
        THEN [s1 EXCEPT !.wrong_[i] = guess_letter_bit]
        ELSE [s1 EXCEPT !.wrong_ = [j \in Positions |-> @[j] \cup guess_letter_bit]]

\* addGuessAt with an absent letter forbidden at position i alone.
addGuessAt_AbsentHere(s, guess, i) ==
    LET guess_letter_bit == Bit(guess[i])
        guess_in_answer  == guess_letter_bit \cap s.answer_bits_
        s1 == [s EXCEPT !.in_answer_ = @ \cup guess_in_answer]
    IN  IF guess[i] = s.answer_[i]
        THEN [s1 EXCEPT !.match_[i] = s.answer_[i]]
        ELSE [s1 EXCEPT !.wrong_[i] = @ \cup guess_letter_bit]

\* addGuessAt with in_answer_ |= guess_in_answer in the matching branch alone.
addGuessAt_RequiredOnMatch(s, guess, i) ==
    LET guess_letter_bit == Bit(guess[i])
        guess_in_answer  == guess_letter_bit \cap s.answer_bits_
    IN  IF guess[i] = s.answer_[i]
        THEN [s EXCEPT !.match_[i] = s.answer_[i],
                       !.in_answer_ = @ \cup guess_in_answer]
        ELSE IF guess_in_answer # {}
        THEN [s EXCEPT !.wrong_[i] = @ \cup guess_letter_bit]
        ELSE [s EXCEPT !.wrong_ = [j \in Positions |-> @[j] \cup guess_letter_bit]]

\* addGuessAt with wrong_[i] ^= guess_letter_bit in place of wrong_[i] |= it.
addGuessAt_Toggle(s, guess, i) ==
    LET guess_letter_bit == Bit(guess[i])
        guess_in_answer  == guess_letter_bit \cap s.answer_bits_
        s1 == [s EXCEPT !.in_answer_ = @ \cup guess_in_answer]
    IN  IF guess[i] = s.answer_[i]
        THEN [s1 EXCEPT !.match_[i] = s.answer_[i]]
        ELSE IF guess_in_answer # {}
        THEN [s1 EXCEPT !.wrong_[i] = (@ \ guess_letter_bit) \cup (guess_letter_bit \ @)]
        ELSE [s1 EXCEPT !.wrong_ = [j \in Positions |-> @[j] \cup guess_letter_bit]]

\* addGuessAt with in_answer_ |= guess_letter_bit, the bit not masked by
\* answer_bits_.
addGuessAt_RequiredAll(s, guess, i) ==
    LET guess_letter_bit == Bit(guess[i])
        guess_in_answer  == guess_letter_bit \cap s.answer_bits_
        s1 == [s EXCEPT !.in_answer_ = @ \cup guess_letter_bit]
    IN  IF guess[i] = s.answer_[i]
        THEN [s1 EXCEPT !.match_[i] = s.answer_[i]]
        ELSE IF guess_in_answer # {}
        THEN [s1 EXCEPT !.wrong_[i] = @ \cup guess_letter_bit]
        ELSE [s1 EXCEPT !.wrong_ = [j \in Positions |-> @[j] \cup guess_letter_bit]]

\* One iteration (position i) of the loop of WorldleGame::addGuess.
addGuessAt(s, guess, i) ==
    LET answer_letter    == s.answer_[i]
        guess_letter     == guess[i]
        guess_letter_bit == Bit(guess_letter)
        guess_in_answer  == guess_letter_bit \cap s.answer_bits_
        s1 == [s EXCEPT !.in_answer_ = @ \cup guess_in_answer]
    IN  IF guess_letter = answer_letter
        THEN [s1 EXCEPT !.match_[i] = answer_letter]
        ELSE IF guess_in_answer # {}
        THEN [s1 EXCEPT !.wrong_[i] = @ \cup guess_letter_bit]
        ELSE [s1 EXCEPT !.wrong_ = [j \in Positions |-> @[j] \cup guess_letter_bit]]

RECURSIVE addGuessFrom(_, _, _)
\* The loop of WorldleGame::addGuess from position i on.
addGuessFrom(s, guess, i) ==
    IF i > kNumLetters THEN s
    ELSE addGuessFrom(addGuessAt(s, guess, i), guess, i + 1)

\* WorldleGame::addGuess
addGuess(s, guess) == addGuessFrom(s, guess, 1)

RECURSIVE addGuesses(_, _)
\* WorldleGame::addGuesses: addGuess for each guess, in the vector's order.
addGuesses(s, guesses) ==
    IF guesses = <<>> THEN s
    ELSE addGuesses(addGuess(s, Head(guesses)), Tail(guesses))

\* WorldleGame::getCopyWithGuess: ret is a copy of *this, by value.
getCopyWithGuess(s, guess) ==
    LET ret == s
    IN  addGuess(ret, guess)

RECURSIVE matchesFrom_NoRequired(_, _, _, _)
\* matchesFrom without the test of in_answer_ after the loop.
matchesFrom_NoRequired(s, word, i, in_word) ==
    IF i > kNumLetters
    THEN TRUE
    ELSE IF s.match_[i] # kUnknownLetter /\ s.match_[i] # word[i]
    THEN FALSE
    ELSE IF (Bit(word[i]) \cap s.wrong_[i]) # {}
    THEN FALSE
    ELSE matchesFrom_NoRequired(s, word, i + 1, in_word \cup Bit(word[i]))

RECURSIVE matchesFrom_NoMatchTest(_, _, _, _)
\* matchesFrom without the test of match_[i] in the loop.
matchesFrom_NoMatchTest(s, word, i, in_word) ==
    IF i > kNumLetters
    THEN (s.in_answer_ \cap in_word) = s.in_answer_
    ELSE IF (Bit(word[i]) \cap s.wrong_[i]) # {}
    THEN FALSE
    ELSE matchesFrom_NoMatchTest(s, word, i + 1, in_word \cup Bit(word[i]))

RECURSIVE matchesFrom(_, _, _, _)
\* The loop of Clues::matches from position i on, and the test after it.
matchesFrom(s, word, i, in_word) ==
    IF i > kNumLetters
    THEN (s.in_answer_ \cap in_word) = s.in_answer_
    ELSE LET letter         == word[i]
             correct_letter == s.match_[i]
             letter_bit     == Bit(letter)
         IN  IF correct_letter # kUnknownLetter /\ correct_letter # letter
             THEN FALSE
             ELSE IF (letter_bit \cap s.wrong_[i]) # {}
             THEN FALSE
             ELSE matchesFrom(s, word, i + 1, in_word \cup letter_bit)

\* Clues::matches
matches(s, word) == matchesFrom(s, word, 1, {})

\* ------------------------------------------------------------------------
\* The state of a session under use: the session (game), the session last
\* returned by getCopyWithGuess (copy), and the last call made (last): its
\* name, and for matches and getCopyWithGuess its argument and its result.

VARIABLES game, copy, last

\* The letters of the guesses applied to game so far (kept for the claims:
\* the program does not hold it).
VARIABLE guessed

\* The state of a call of runGreedyTrial: its arguments entries, answer_idx
\* and num_answers, its locals trial_game, valid_answers, best_guesses,
\* scores and trial_count, and where the call stands (pc):
\*   "idle"           no call is under way
\*   "entry"          called, before line 171
\*   "loop"           at the test of the while loop, line 188
\*   "select"         after the scoring loops, before line 199
\*   "returned"       returned trial_count, line 232
\*   "assert_failed"  an assert of lines 230-231 failed
\*   "crashed"        the process died in the scoring loop
VARIABLES entries, answer_idx, num_answers, trial_game, valid_answers,
          best_guesses, scores, trial_count, pc

\* The state of the word codec: the string or the file lines handed in, the
\* line buffer of loadWordFile, the words produced, and how the call stands.
VARIABLE codec

\* The state of a call of findGreedyFirstGuess: its arguments, guess_scores,
\* the index of the printing loop, the scores printed, and how it stands.
VARIABLE rank

session_vars == <<game, copy, last, guessed>>

other_vars == <<codec, rank>>

trial_vars ==
    <<entries, answer_idx, num_answers, trial_game, valid_answers,
      best_guesses, scores, trial_count, pc>>

vars == <<game, copy, last, guessed, entries, answer_idx, num_answers,
          trial_game, valid_answers, best_guesses, scores, trial_count, pc,
          codec, rank>>

\* No call of runGreedyTrial is under way.
TrialIdle ==
    /\ entries = <<>>
    /\ answer_idx = 0
    /\ num_answers = 0
    /\ trial_game = NoGame
    /\ valid_answers = <<>>
    /\ best_guesses = <<>>
    /\ scores = <<>>
    /\ trial_count = 0
    /\ pc = "idle"

\* No call of the codec is under way.
CodecIdle == codec = [status |-> "idle"]

\* No call of findGreedyFirstGuess is under way.
RankIdle == rank = [status |-> "idle"]

\* No call of the codec or of findGreedyFirstGuess is under way.
OtherIdle == CodecIdle /\ RankIdle

\* No session is under use.
SessionIdle ==
    /\ game = NoGame
    /\ copy = NoGame
    /\ guessed = {}

Call(op, word, result) == [op |-> op, word |-> word, result |-> result]

\* WorldleGame game(answer);
Init ==
    /\ \E answer \in Pool : game = WorldleGame(answer)
    /\ copy = NoGame
    /\ guessed = {}
    /\ last = Call("WorldleGame", <<>>, FALSE)
    /\ TrialIdle
    /\ OtherIdle

\* game.addGuess(guess)
AddGuess(guess) ==
    /\ game' = addGuess(game, guess)
    /\ guessed' = guessed \cup LettersOf(guess)
    /\ last' = Call("addGuess", <<>>, FALSE)
    /\ UNCHANGED copy
    /\ UNCHANGED <<trial_vars, other_vars>>

\* game.addGuesses(guesses)
AddGuesses(guesses) ==
    /\ game' = addGuesses(game, guesses)
    /\ guessed' = guessed \cup UNION {LettersOf(guesses[k]) : k \in 1..Len(guesses)}
    /\ last' = Call("addGuesses", <<>>, FALSE)
    /\ UNCHANGED copy
    /\ UNCHANGED <<trial_vars, other_vars>>

\* game.matches(word): a const method, its result kept in last.
Matches(word) ==
    /\ last' = Call("matches", word, matches(game, word))
    /\ UNCHANGED <<game, copy, guessed>>
    /\ UNCHANGED <<trial_vars, other_vars>>

\* getCopyWithGuess with ret bound to *this in place of a copy of it: the
\* guess lands in the session itself, and the session returned is that one.
GetCopyWithGuess_Alias(guess) ==
    /\ game' = addGuess(game, guess)
    /\ copy' = game'
    /\ last' = Call("getCopyWithGuess", guess, FALSE)
    /\ UNCHANGED guessed
    /\ UNCHANGED <<trial_vars, other_vars>>

\* copy = game.getCopyWithGuess(guess)
GetCopyWithGuess(guess) ==
    /\ copy' = getCopyWithGuess(game, guess)
    /\ last' = Call("getCopyWithGuess", guess, FALSE)
    /\ UNCHANGED <<game, guessed>>
    /\ UNCHANGED <<trial_vars, other_vars>>

\* copy.addGuess(guess), on a session getCopyWithGuess returned.
CopyAddGuess(guess) ==
    /\ copy # NoGame
    /\ copy' = addGuess(copy, guess)
    /\ last' = Call("copy.addGuess", <<>>, FALSE)
    /\ UNCHANGED <<game, guessed>>
    /\ UNCHANGED <<trial_vars, other_vars>>

\* One session, its guesses and its queries.
Next ==
    \/ \E guess \in Pool : AddGuess(guess)
    \/ \E guesses \in GuessSeqs(MaxGuessSeq) : AddGuesses(guesses)
    \/ \E word \in Pool : Matches(word)

Spec == Init /\ [][Next]_vars

\* One session and the copies branched from it.
BranchNext ==
    \/ \E guess \in Pool : AddGuess(guess)
    \/ \E guess \in Pool : GetCopyWithGuess(guess)
    \/ \E guess \in Pool : CopyAddGuess(guess)

BranchSpec == Init /\ [][BranchNext]_vars

\* ------------------------------------------------------------------------
\* runGreedyTrial.

\* The word lists a trial may be given: no word twice, as in the word files.
EntryLists ==
    {list \in UNION {[1..n -> Pool] : n \in 1..MaxEntries} :
        \A i, j \in 1..Len(list) : i # j => list[i] # list[j]}

\* entries[answer_idx]
answer == entries[answer_idx + 1]

\* std::count_if(words.cbegin(), words.cend(), g.matches)
CountIf(words, g) == Cardinality({k \in 1..Len(words) : matches(g, words[k])})

\* The words of the list that match the session, in the list's order
\* (the filter loops of lines 178-182 and 207-211).
Filter(words, g) == SelectSeq(words, LAMBDA w : matches(g, w))

\* WorldleGame game_for_answer(valid_answer); game_for_answer.addGuesses(best_guesses);
game_for_answer(valid_answer) == addGuesses(WorldleGame(valid_answer), best_guesses)

RECURSIVE ScoreAddedFrom(_, _)
\* What the scoring loops add to scores[i] for the valid answers from the
\* k-th on: for each, the count of the valid answers that match
\* game_for_answer.getCopyWithGuess(entries[i]).
ScoreAddedFrom(i, k) ==
    IF k > Len(valid_answers) THEN 0
    ELSE CountIf(valid_answers,
                 getCopyWithGuess(game_for_answer(valid_answers[k]), entries[i]))
         + ScoreAddedFrom(i, k + 1)

\* What one round's scoring loops add to scores[i] (lines 189-198).
ScoreAdded(i) == ScoreAddedFrom(i, 1)

\* std::distance(v.cbegin(), std::min_element(v.cbegin(), v.cend())): the
\* first smallest element; for an empty vector min_element returns cend(),
\* which is cbegin().
MinElementDistance(v) ==
    IF v = <<>> THEN 0
    ELSE (CHOOSE i \in 1..Len(v) :
            \A j \in 1..Len(v) : v[i] <= v[j] /\ (j < i => v[j] > v[i])) - 1

\* A call runGreedyTrial(entries, answer_idx, num_answers) that satisfies
\* assert(answer_idx < entries.size()), with num_answers words of entries
\* being answers.
TrialInit ==
    /\ SessionIdle
    /\ last = Call("runGreedyTrial", <<>>, FALSE)
    /\ OtherIdle
    /\ entries \in EntryLists
    /\ num_answers \in 1..Len(entries)
    /\ answer_idx \in 0..(Len(entries) - 1)
    /\ trial_game = NoGame
    /\ valid_answers = <<>>
    /\ best_guesses = <<>>
    /\ scores = <<>>
    /\ trial_count = 0
    /\ pc = "entry"

\* SeedTrial without trial_game.addGuess(first_guess).
SeedTrial_NoFirstGuess ==
    /\ pc = "entry"
    /\ trial_game' = WorldleGame(answer)
    /\ valid_answers' = Filter(SubSeq(entries, 1, num_answers), WorldleGame(answer))
    /\ best_guesses' = <<first_guess>>
    /\ scores' = <<>>
    /\ trial_count' = 1
    /\ pc' = "loop"
    /\ UNCHANGED <<entries, answer_idx, num_answers, session_vars, other_vars>>

\* SeedTrial with the first filter run to entries.cend() in place of
\* answers_end_it.
SeedTrial_AllEntries ==
    /\ pc = "entry"
    /\ LET seeded == addGuess(WorldleGame(answer), first_guess)
       IN  /\ trial_game' = seeded
           /\ valid_answers' = Filter(entries, seeded)
    /\ best_guesses' = <<first_guess>>
    /\ scores' = <<>>
    /\ trial_count' = 1
    /\ pc' = "loop"
    /\ UNCHANGED <<entries, answer_idx, num_answers, session_vars, other_vars>>

\* Lines 171-187: the first guess, the first filter, the locals.
\* std::vector<int64_t> scores; is an empty vector.
SeedTrial ==
    /\ pc = "entry"
    /\ LET seeded == addGuess(WorldleGame(answer), first_guess)
       IN  /\ trial_game' = seeded
           /\ valid_answers' = Filter(SubSeq(entries, 1, num_answers), seeded)
    /\ best_guesses' = <<first_guess>>
    /\ scores' = <<>>
    /\ trial_count' = 1
    /\ pc' = "loop"
    /\ UNCHANGED <<entries, answer_idx, num_answers, session_vars, other_vars>>

\* Lines 188-198: the loop is entered and the scoring loops run.  scores[i]
\* += ... for an i within the vector adds ScoreAdded(i); for an i at or past
\* scores.size() it is a write outside the vector, undefined behaviour:
\* here the write lands outside the vector's elements and the call goes on.
ScoreGuesses ==
    /\ pc = "loop"
    /\ Len(valid_answers) > 1
    /\ trial_count < MaxRounds
    /\ scores' = [i \in 1..Len(scores) |-> scores[i] + ScoreAdded(i)]
    /\ pc' = "select"
    /\ UNCHANGED <<entries, answer_idx, num_answers, trial_game, valid_answers,
                   best_guesses, trial_count, session_vars, other_vars>>

\* Lines 188-198 again: the write outside the vector (the data pointer of
\* an empty vector is null) ends the process.
ScoreGuessesCrash ==
    /\ pc = "loop"
    /\ Len(valid_answers) > 1
    /\ trial_count < MaxRounds
    /\ Len(scores) < Len(entries)
    /\ pc' = "crashed"
    /\ UNCHANGED <<entries, answer_idx, num_answers, trial_game, valid_answers,
                   best_guesses, scores, trial_count, session_vars, other_vars>>

\* CommitBest without next_valid_answers.clear(): the vector swapped back
\* in still holds the round's valid answers, and the next filter appends.
CommitBest_NoClear ==
    /\ pc = "select"
    /\ LET best_guess == entries[MinElementDistance(scores) + 1]
           committed  == addGuess(trial_game, best_guess)
       IN  /\ best_guesses' = Append(best_guesses, best_guess)
           /\ trial_game' = committed
           /\ valid_answers' = valid_answers \o Filter(valid_answers, committed)
    /\ scores' = [i \in 1..Len(scores) |-> 0]
    /\ trial_count' = trial_count + 1
    /\ pc' = "loop"
    /\ UNCHANGED <<entries, answer_idx, num_answers, session_vars, other_vars>>

\* Lines 199-215: the guess of the smallest score is committed, the valid
\* answers are filtered, the scores are zeroed.
CommitBest ==
    /\ pc = "select"
    /\ LET best_guess == entries[MinElementDistance(scores) + 1]
           committed  == addGuess(trial_game, best_guess)
       IN  /\ best_guesses' = Append(best_guesses, best_guess)
           /\ trial_game' = committed
           /\ valid_answers' = Filter(valid_answers, committed)
    /\ scores' = [i \in 1..Len(scores) |-> 0]
    /\ trial_count' = trial_count + 1
    /\ pc' = "loop"
    /\ UNCHANGED <<entries, answer_idx, num_answers, session_vars, other_vars>>

\* Lines 230-232: the loop is left, both asserts hold, trial_count is returned.
ReturnCount ==
    /\ pc = "loop"
    /\ Len(valid_answers) <= 1
    /\ Len(valid_answers) = 1
    /\ valid_answers[1] = answer
    /\ pc' = "returned"
    /\ UNCHANGED <<entries, answer_idx, num_answers, trial_game, valid_answers,
                   best_guesses, scores, trial_count, session_vars, other_vars>>

\* Lines 230-231: the loop is left and an assert fails.
AssertFails ==
    /\ pc = "loop"
    /\ Len(valid_answers) <= 1
    /\ ~(Len(valid_answers) = 1 /\ valid_answers[1] = answer)
    /\ pc' = "assert_failed"
    /\ UNCHANGED <<entries, answer_idx, num_answers, trial_game, valid_answers,
                   best_guesses, scores, trial_count, session_vars, other_vars>>

TrialNext ==
    \/ SeedTrial
    \/ ScoreGuesses
    \/ ScoreGuessesCrash
    \/ CommitBest
    \/ ReturnCount
    \/ AssertFails

TrialSpec == TrialInit /\ [][TrialNext]_vars

\* The program is one thread that runs on while it has a step to take.
FairTrialSpec == TrialInit /\ [][TrialNext]_vars /\ WF_vars(TrialNext)

\* ------------------------------------------------------------------------
\* The word codec: fromString and loadWordFile.

\* The character 'a' that both subtract from every character.
CharA == 97

\* The size of the line buffer of loadWordFile.
kBufferSize == kNumLetters + 1

\* Bound: the number of lines loadWordFile reads from a file.
MaxLines == 2

\* operator<< for a Word: the characters written.
toChars(word) == [i \in Positions |-> word[i] + CharA]

\* The strings and file lines handed to the codec: for every word of the
\* pool its kNumLetters characters, the same with the character before 'a'
\* in front, the same cut by one character, and the same with one more.
Strings ==
    UNION {{toChars(w),
            [toChars(w) EXCEPT ![1] = CharA - 1],
            SubSeq(toChars(w), 1, kNumLetters - 1),
            Append(toChars(w), CharA)} : w \in Pool}

\* The state of a codec call: the operation, the string handed in (or the
\* line read last), the line buffer, the words loaded, the word returned.
\* status is "entry" (called), "loading" (in the loop of loadWordFile),
\* "returned", or "assert_failed" (the assert of fromString failed).
CodecCall(op, str, buffer) ==
    [status |-> "entry", op |-> op, str |-> str, buffer |-> buffer,
     word_list |-> <<>>, word |-> <<>>]

\* A call of fromString on any string, or of loadWordFile; the buffer of
\* loadWordFile is not initialised: it starts as zeros or as any character.
CodecInit ==
    /\ SessionIdle
    /\ last = Call("codec", <<>>, FALSE)
    /\ TrialIdle
    /\ RankIdle
    /\ \/ \E str \in Strings : codec = CodecCall("fromString", str, <<>>)
       \/ \E fill \in {0, CharA} :
             codec = CodecCall("loadWordFile", <<>>,
                               [i \in 1..kBufferSize |-> fill])

\* fromString: the assert on the size, then str[i] - 'a' for each position.
fromString ==
    /\ codec.op = "fromString"
    /\ codec.status = "entry"
    /\ IF Len(codec.str) # kNumLetters
       THEN codec' = [codec EXCEPT !.status = "assert_failed"]
       ELSE codec' = [codec EXCEPT
                         !.status = "returned",
                         !.word = [i \in Positions |-> codec.str[i] - CharA]]
    /\ UNCHANGED <<session_vars, trial_vars, rank>>

\* What getline(&buffer[0], kBufferSize) leaves in the buffer for a line:
\* at most kBufferSize - 1 characters of it, a zero after them, and what
\* the buffer held in the rest.
getline(buffer, line) ==
    LET n == IF Len(line) < kBufferSize THEN Len(line) ELSE kBufferSize - 1
    IN  [i \in 1..kBufferSize |->
            IF i <= n THEN line[i] ELSE IF i = n + 1 THEN 0 ELSE buffer[i]]

\* One round of the loop of loadWordFile, the file holding line next.  A
\* line longer than kBufferSize - 1 sets the fail bit of the stream: the
\* loop test is false and the words loaded so far are returned.  Any other
\* line appends the word buffer[i] - 'a'.
loadWordFileLine(line) ==
    /\ codec.op = "loadWordFile"
    /\ codec.status \in {"entry", "loading"}
    /\ Len(codec.word_list) < MaxLines
    /\ LET buffer == getline(codec.buffer, line)
       IN  IF Len(line) >= kBufferSize
           THEN codec' = [codec EXCEPT !.status = "returned", !.str = line,
                                       !.buffer = buffer]
           ELSE codec' = [codec EXCEPT
                             !.status = "loading", !.str = line,
                             !.buffer = buffer,
                             !.word_list =
                                 Append(@, [i \in Positions |-> buffer[i] - CharA])]
    /\ UNCHANGED <<session_vars, trial_vars, rank>>

\* The end of the file: getline fails, loadWordFile returns word_list.
loadWordFileEnd ==
    /\ codec.op = "loadWordFile"
    /\ codec.status \in {"entry", "loading"}
    /\ codec' = [codec EXCEPT !.status = "returned"]
    /\ UNCHANGED <<session_vars, trial_vars, rank>>

CodecNext ==
    \/ fromString
    \/ \E line \in Strings : loadWordFileLine(line)
    \/ loadWordFileEnd

CodecSpec == CodecInit /\ [][CodecNext]_vars

\* ------------------------------------------------------------------------
\* findGreedyFirstGuess.  The function names num_guesses, answers and
\* num_answers() without declaring them; they are read as entries.size(),
\* entries and num_answers.

\* The number of guesses the last loop prints.
kTopGuesses == 50

\* The permutations of 1..n.
Perms(n) == {p \in [1..n -> 1..n] : \A i, j \in 1..n : i # j => p[i] # p[j]}

\* The vector v taken in the order p.
Permuted(v, p) == [k \in 1..Len(v) |-> v[p[k]]]

\* GuessScore
GuessScore(idx, score) == [idx |-> idx, score |-> score]

\* What a read of guess_scores past its end gives, when it gives anything.
Garbage == GuessScore(-1, -1)

\* The state of a call: the arguments entries and num_answers, guess_scores,
\* the loop index i, the lines printed by the last loop, and status:
\* "entry" (called), "score" (in the loop of lines 147-156), "sort" (before
\* line 157), "print" (in the loop of lines 161-164), "returned", or
\* "crashed" (the process died reading past the end of guess_scores).
RankInit ==
    /\ SessionIdle
    /\ last = Call("findGreedyFirstGuess", <<>>, FALSE)
    /\ TrialIdle
    /\ CodecIdle
    /\ \E es \in EntryLists : \E n \in 1..Len(es) :
          rank = [status |-> "entry", entries |-> es, num_answers |-> n,
                  guess_scores |-> <<>>, i |-> 0, printed |-> <<>>]

\* Lines 141-146: one GuessScore{i, 0} for every entry.
InitScores ==
    /\ rank.status = "entry"
    /\ rank' = [rank EXCEPT
                   !.status = "score",
                   !.guess_scores = [j \in 1..Len(rank.entries) |->
                                        GuessScore(j - 1, 0)]]
    /\ UNCHANGED <<session_vars, trial_vars, codec>>

\* One round of the loop of line 147, for the answer entries[i]: every
\* guess j gains the number of answers that match the new session of that
\* answer after the guess entries[j].
ScoreAnswer ==
    /\ rank.status = "score"
    /\ rank.i < rank.num_answers
    /\ LET answers == SubSeq(rank.entries, 1, rank.num_answers)
       IN  rank' = [rank EXCEPT
               !.i = @ + 1,
               !.guess_scores = [j \in 1..Len(rank.entries) |->
                   [@[j] EXCEPT !.score = @ + CountIf(answers,
                       addGuess(WorldleGame(rank.entries[rank.i + 1]),
                                rank.entries[j]))]]]
    /\ UNCHANGED <<session_vars, trial_vars, codec>>

\* The loop of line 147 is left.
ScoreDone ==
    /\ rank.status = "score"
    /\ rank.i >= rank.num_answers
    /\ rank' = [rank EXCEPT !.status = "sort", !.i = 0]
    /\ UNCHANGED <<session_vars, trial_vars, codec>>

\* std::sort by a.score < b.score: any order with the scores ascending
\* (the order of equal scores is not specified).
SortScores ==
    /\ rank.status = "sort"
    /\ \E p \in Perms(Len(rank.guess_scores)) :
          LET sorted == Permuted(rank.guess_scores, p)
          IN  /\ \A a, b \in 1..Len(sorted) :
                    a < b => sorted[a].score <= sorted[b].score
              /\ rank' = [rank EXCEPT !.status = "print",
                                      !.guess_scores = sorted]
    /\ UNCHANGED <<session_vars, trial_vars, codec>>

\* One round of the loop of line 161 with guess_scores[i] in the vector.
PrintGuess ==
    /\ rank.status = "print"
    /\ rank.i < kTopGuesses
    /\ rank.i < Len(rank.guess_scores)
    /\ rank' = [rank EXCEPT !.i = @ + 1,
                            !.printed = Append(@, rank.guess_scores[rank.i + 1])]
    /\ UNCHANGED <<session_vars, trial_vars, codec>>

\* One round of the loop of line 161 with i past the end of guess_scores:
\* the read is undefined, the process dies or a line of garbage is printed.
PrintPastEnd ==
    /\ rank.status = "print"
    /\ rank.i < kTopGuesses
    /\ rank.i >= Len(rank.guess_scores)
    /\ \/ rank' = [rank EXCEPT !.status = "crashed"]
       \/ rank' = [rank EXCEPT !.i = @ + 1, !.printed = Append(@, Garbage)]
    /\ UNCHANGED <<session_vars, trial_vars, codec>>

\* The loop of line 161 is left and the function returns.
PrintDone ==
    /\ rank.status = "print"
    /\ rank.i >= kTopGuesses
    /\ rank' = [rank EXCEPT !.status = "returned"]
    /\ UNCHANGED <<session_vars, trial_vars, codec>>

RankNext ==
    \/ InitScores
    \/ ScoreAnswer
    \/ ScoreDone
    \/ SortScores
    \/ PrintGuess
    \/ PrintPastEnd
    \/ PrintDone

RankSpec == RankInit /\ [][RankNext]_vars

\* ------------------------------------------------------------------------
\* The claims about a session.

\* Some letter occurs twice in the word.
HasRepeat(word) == \E i, j \in Positions : i # j /\ word[i] = word[j]

\* C1: after every step of every sequence of addGuess / addGuesses calls on
\* a session built from an answer A, matches(A) is true: the clues derived
\* from the answer never exclude it, repeated letters included.
C1_SelfConsistent == matches(game, game.answer_)

\* An answer with a repeated letter, after an addGuesses call, with a letter
\* of the answer forbidden at some position and a position matched.
C1_Witness ==
    /\ HasRepeat(game.answer_)
    /\ last.op = "addGuesses"
    /\ \E i \in Positions : game.wrong_[i] \cap game.answer_bits_ # {}
    /\ \E i \in Positions : game.match_[i] # kUnknownLetter

\* C5: in every step of a session, a match_[i] that is set keeps its letter,
\* every wrong_[i] after the step is a superset of wrong_[i] before it, and
\* in_answer_ after the step is a superset of in_answer_ before it.
C5_MonotonicGrowth ==
    [][/\ \A i \in Positions :
            /\ game.match_[i] # kUnknownLetter => game'.match_[i] = game.match_[i]
            /\ game.wrong_[i] \subseteq game'.wrong_[i]
       /\ game.in_answer_ \subseteq game'.in_answer_]_vars

\* A session that holds clues of every kind (a matched position, an unmatched
\* one, a forbidden letter, a required one) right after an addGuess call.
C5_Witness ==
    /\ last.op = "addGuess"
    /\ \E i \in Positions : game.match_[i] # kUnknownLetter
    /\ \E i \in Positions : game.match_[i] = kUnknownLetter /\ game.wrong_[i] # {}
    /\ game.in_answer_ # {}

\* The three reasons the specification gives for a word to be excluded.
MatchDiffers(s, word) ==
    \E i \in Positions : s.match_[i] # kUnknownLetter /\ s.match_[i] # word[i]

ForbiddenHere(s, word) == \E i \in Positions : word[i] \in s.wrong_[i]

RequiredMissing(s, word) == ~(s.in_answer_ \subseteq LettersOf(word))

\* C6: matches(candidate) is false exactly when a set match_[i] differs from
\* candidate[i], or candidate[i] is in wrong_[i], or in_answer_ is not a
\* subset of the candidate's letters; and a matches call leaves the session
\* as it was.
C6_MatchesExact ==
    /\ [](\A word \in Pool :
            matches(game, word) =
                ~(MatchDiffers(game, word) \/ ForbiddenHere(game, word)
                    \/ RequiredMissing(game, word)))
    /\ [][last'.op = "matches" =>
            /\ game' = game
            /\ copy' = copy
            /\ last'.result =
                ~(MatchDiffers(game, last'.word) \/ ForbiddenHere(game, last'.word)
                    \/ RequiredMissing(game, last'.word))]_vars

\* A matches call that answered false for the third reason alone.
C6_Witness ==
    /\ last.op = "matches"
    /\ ~last.result
    /\ ~MatchDiffers(game, last.word)
    /\ ~ForbiddenHere(game, last.word)
    /\ RequiredMissing(game, last.word)

\* C7: a guess that shares no letter with the answer adds each of its
\* letters to wrong_[j] for every position j, and leaves in_answer_ and
\* match_ as they were.
C7_AbsentLetters ==
    \A guess \in Pool :
        LettersOf(guess) \cap game.answer_bits_ = {} =>
            LET after == addGuess(game, guess)
            IN  /\ \A j \in Positions :
                     after.wrong_[j] = game.wrong_[j] \cup LettersOf(guess)
                /\ after.in_answer_ = game.in_answer_
                /\ after.match_ = game.match_

\* A session that has taken a guess sharing no letter with the answer, and a
\* guess that shares one.
C7_Witness ==
    /\ game.in_answer_ # {}
    /\ \E guess \in Pool :
          /\ LettersOf(guess) \cap game.answer_bits_ = {}
          /\ \A j \in Positions : LettersOf(guess) \subseteq game.wrong_[j]

\* C8: a guess letter that is in the answer but not at its position i is
\* added to wrong_[i] and to in_answer_; and a letter c of the answer becomes
\* newly forbidden at a position j only if guess[j] = c and answer[j] # c.
C8_MisplacedLetter ==
    \A guess \in Pool :
        LET after == addGuess(game, guess)
        IN  /\ \A i \in Positions :
                 (guess[i] \in game.answer_bits_ /\ guess[i] # game.answer_[i]) =>
                     /\ guess[i] \in after.wrong_[i]
                     /\ guess[i] \in after.in_answer_
            /\ \A j \in Positions : \A c \in game.answer_bits_ :
                 (c \in after.wrong_[j] /\ c \notin game.wrong_[j]) =>
                     (guess[j] = c /\ game.answer_[j] # c)

\* A letter of the answer that is required, forbidden at one position and
\* not forbidden at another position where the answer does not hold it.
C8_Witness ==
    \E c \in game.answer_bits_ : \E i, j \in Positions :
        /\ c \in game.in_answer_
        /\ c \in game.wrong_[i]
        /\ c \notin game.wrong_[j]
        /\ game.answer_[j] # c

\* C9: in every state a session can reach, applying a guess twice in a row
\* gives the same match_, wrong_ and in_answer_ as applying it once.
C9_Idempotent ==
    \A guess \in Pool :
        addGuess(addGuess(game, guess), guess) = addGuess(game, guess)

\* A session holding the clues of a guess with a misplaced letter, on which
\* that guess applied again changes nothing.
C9_Witness ==
    /\ last.op = "addGuess"
    /\ \E guess \in Pool :
          /\ \E i \in Positions :
                /\ guess[i] # game.answer_[i]
                /\ guess[i] \in game.answer_bits_
                /\ guess[i] \in game.wrong_[i]
          /\ addGuess(game, guess) = game

\* C10: getCopyWithGuess(g) returns the session with addGuess(g) applied and
\* leaves the session itself as it was; afterwards a step that changes one
\* of the two sessions leaves the other as it was.
C10_BranchIndependent ==
    [][/\ last'.op = "getCopyWithGuess" =>
            /\ copy' = addGuess(game, last'.word)
            /\ game' = game
       /\ game' # game => copy' = copy
       /\ copy' # copy => game' = game]_vars

\* A session and its copy, each holding a clue the other does not.
C10_Witness ==
    /\ copy # NoGame
    /\ copy.answer_ = game.answer_
    /\ \E i \in Positions : ~(game.wrong_[i] \subseteq copy.wrong_[i])
    /\ \E j \in Positions : ~(copy.wrong_[j] \subseteq game.wrong_[j])

\* C16: the guesses of a vector applied in any order give the same match_,
\* wrong_ and in_answer_, and so the same matches() for every word.  From
\* every state a session can reach two guesses give the same session in
\* either order; and from a new session every vector of at most MaxGuessSeq
\* guesses gives the same session in every order.
C16_OrderIndependent ==
    /\ \A g1, g2 \in Pool :
          addGuesses(game, <<g1, g2>>) = addGuesses(game, <<g2, g1>>)
    /\ last.op = "WorldleGame" =>
          \A guesses \in GuessSeqs(MaxGuessSeq) : \A p \in Perms(Len(guesses)) :
              /\ addGuesses(game, Permuted(guesses, p)) = addGuesses(game, guesses)
              /\ \A word \in Pool :
                    matches(addGuesses(game, Permuted(guesses, p)), word)
                        = matches(addGuesses(game, guesses), word)

\* A session after an addGuesses call, holding the clues of two guesses
\* neither of which gives them alone.
C16_Witness ==
    /\ last.op = "addGuesses"
    /\ \E g1, g2 \in Pool :
          LET new == WorldleGame(game.answer_)
          IN  /\ game = addGuesses(new, <<g1, g2>>)
              /\ game # addGuess(new, g1)
              /\ game # addGuess(new, g2)

\* C17: for words A and W and a vector of guesses G, W matches the session
\* of answer A after G exactly when A matches the session of answer W after
\* G.  Checked on the new session of every answer A, for every W of the
\* pool and every G of at most MaxGuessSeq guesses.
C17_Symmetric ==
    last.op = "WorldleGame" =>
        \A guesses \in GuessSeqs(MaxGuessSeq) : \A word \in Pool :
            matches(addGuesses(game, guesses), word)
                = matches(addGuesses(WorldleGame(word), guesses), game.answer_)

\* A new session for which some guess leaves another word feasible, each
\* way round, and some guess rules another word out, each way round.
C17_Witness ==
    /\ last.op = "WorldleGame"
    /\ \E guess \in Pool : \E word \in Pool \ {game.answer_} :
          /\ guess # game.answer_
          /\ LettersOf(guess) \cap LettersOf(game.answer_) # {}
          /\ matches(addGuess(game, guess), word)
          /\ matches(addGuess(WorldleGame(word), guess), game.answer_)
    /\ \E guess \in Pool : \E word \in Pool \ {game.answer_} :
          /\ ~matches(addGuess(game, guess), word)
          /\ ~matches(addGuess(WorldleGame(word), guess), game.answer_)

\* C20: in every state of a session, in_answer_ is the set of the letters
\* that are in a guess applied so far and in the answer, match_[i] is
\* kUnknownLetter or answer_[i], and answer_[i] is not in wrong_[i].
C20_ExactClues ==
    /\ game.in_answer_ = guessed \cap LettersOf(game.answer_)
    /\ \A i \in Positions :
          /\ game.match_[i] \in {kUnknownLetter, game.answer_[i]}
          /\ game.answer_[i] \notin game.wrong_[i]

\* A session with a matched position whose letter is required, a guessed
\* letter that is not in the answer, and a letter of the answer not guessed.
C20_Witness ==
    /\ \E i \in Positions :
          game.match_[i] # kUnknownLetter /\ game.match_[i] \in game.in_answer_
    /\ guessed \ LettersOf(game.answer_) # {}
    /\ LettersOf(game.answer_) \ guessed # {}

\* ------------------------------------------------------------------------
\* The claims about a trial.

\* The specification's countMatches(g): the valid answers that match the
\* trial session (the trial answer, the guesses committed so far) branched
\* with g.
CountMatches(g) == CountIf(valid_answers, getCopyWithGuess(trial_game, g))

\* The index in entries (from 1) of the guess the round commits.
Committed == MinElementDistance(scores) + 1

\* C2: a trial on a word of the answer list (answer_idx < num_answers) ends:
\* it leaves the loop and returns, with valid_answers holding the trial
\* answer and nothing else.  (A trial the round bound MaxRounds has cut is
\* left out: it counts as still running.)
C2_Terminates ==
    <>(\/ answer_idx >= num_answers
       \/ pc = "returned" /\ valid_answers = <<answer>>
       \/ pc = "loop" /\ trial_count >= MaxRounds)

\* C3: in a round the score computed for each candidate guess g is
\* countMatches(g), and the guess the round commits is a minimizer of
\* countMatches.
C3_ScoreIsCountMatches ==
    pc = "select" =>
        /\ \A i \in 1..Len(entries) : ScoreAdded(i) = CountMatches(entries[i])
        /\ \A j \in 1..Len(entries) :
              CountMatches(entries[Committed]) <= CountMatches(entries[j])

\* C4: the guess a round commits has the smallest score of the round, and
\* among the guesses of that score the smallest index in entries.
C4_FirstMinimum ==
    pc = "select" =>
        \A j \in 1..Len(entries) :
            \/ ScoreAdded(Committed) < ScoreAdded(j)
            \/ ScoreAdded(Committed) = ScoreAdded(j) /\ Committed <= j

\* The words of a vector, as a set.
Range(words) == {words[k] : k \in 1..Len(words)}

\* The valid answers right after the first guess of the trial.
SeedFilter ==
    Filter(SubSeq(entries, 1, num_answers), addGuess(WorldleGame(answer), first_guess))

\* C11: in every round, the valid answers after the commit are the valid
\* answers of before that match the updated clues, so they are no more.
C11_MonotonicNarrowing ==
    [][(pc = "select" /\ pc' = "loop") =>
          /\ valid_answers' = Filter(valid_answers, trial_game')
          /\ Range(valid_answers') \subseteq Range(valid_answers)
          /\ Len(valid_answers') <= Len(valid_answers)]_vars

\* After a round, with fewer valid answers than the first guess left.
C11_Witness ==
    /\ pc = "loop"
    /\ trial_count > 1
    /\ Len(valid_answers) < Len(SeedFilter)

\* C12: once the valid answers are none or do not hold the trial answer,
\* the trial ends in no way but the failed assert: it returns no count and
\* does not die otherwise.
C12_FailsWithError ==
    (pc # "entry" /\ answer \notin Range(valid_answers)) =>
        pc \in {"loop", "select", "assert_failed"}

\* C13 as stated: with the first guess as the trial answer, after the first
\* guess matches(first_guess) is true, the valid answers are that word
\* alone, no round is run and the trial returns 1.
C13_SeedAnswer_AsStated ==
    (pc # "entry" /\ answer = first_guess) =>
        /\ matches(trial_game, first_guess)
        /\ valid_answers = <<first_guess>>
        /\ trial_count = 1
        /\ pc \in {"loop", "returned"}
        /\ pc = "loop" => ENABLED ReturnCount

\* C13, amended: the same, for a first guess that is one of the
\* num_answers answers (answer_idx < num_answers).
C13_SeedAnswer ==
    (pc # "entry" /\ answer = first_guess /\ answer_idx < num_answers) =>
        /\ matches(trial_game, first_guess)
        /\ valid_answers = <<first_guess>>
        /\ trial_count = 1
        /\ pc \in {"loop", "returned"}
        /\ pc = "loop" => ENABLED ReturnCount

\* The trial of the first guess has returned 1, out of several answers.
C13_Witness ==
    /\ pc = "returned"
    /\ answer = first_guess
    /\ trial_count = 1
    /\ num_answers > 1

\* C18: a round that starts with two valid answers or more leaves, after
\* its commit and filter, fewer valid answers than it started with.
C18_StrictProgress ==
    pc = "select" =>
        Len(Filter(valid_answers, addGuess(trial_game, entries[Committed])))
            < Len(valid_answers)

\* C19: for a trial answer of the answer list, the valid answers kept by the
\* filters are, at every point, the words of the answer list that match the
\* clues of trial_game, and the trial answer is one of them.
C19_FilterFromScratch ==
    (pc # "entry" /\ answer_idx < num_answers) =>
        /\ valid_answers = Filter(SubSeq(entries, 1, num_answers), trial_game)
        /\ answer \in Range(valid_answers)

\* A trial that has returned after a round that dropped a valid answer,
\* with a word of entries that is no answer.
C19_Witness ==
    /\ pc = "returned"
    /\ trial_count > 1
    /\ answer_idx < num_answers
    /\ num_answers < Len(entries)
    /\ Len(SeedFilter) > 1

\* ------------------------------------------------------------------------
\* The claims about the codec and about findGreedyFirstGuess.

\* Every letter code of the word is one of the codes of 'a'..'z'.
InAlphabet(word) == \A i \in DOMAIN word : word[i] \in 0..25

\* The string has not kNumLetters characters or has one outside 'a'..'z'.
Malformed(str) ==
    \/ Len(str) # kNumLetters
    \/ \E i \in 1..Len(str) : (str[i] - CharA) \notin 0..25

\* C14: fromString and loadWordFile fail with an error whenever the string
\* or the line has not exactly kNumLetters characters or has a character
\* outside 'a'..'z', and never give a word with a letter code outside 0..25.
C14_MalformedFails ==
    /\ (codec.status \in {"loading", "returned", "assert_failed"}
            /\ codec.str # <<>> /\ Malformed(codec.str))
          => codec.status = "assert_failed"
    /\ codec.status \in {"loading", "returned"} =>
          /\ InAlphabet(codec.word)
          /\ \A k \in 1..Len(codec.word_list) : InAlphabet(codec.word_list[k])

RECURSIVE SumScores(_, _, _)
\* The sum, over the first n answers A, of the number of answers that match
\* the new session of A after the one guess g.
SumScores(answers, g, n) ==
    IF n = 0
    THEN 0
    ELSE SumScores(answers, g, n - 1)
            + CountIf(answers, addGuess(WorldleGame(answers[n]), g))

\* C15: after findGreedyFirstGuess has sorted, the score of every guess is
\* the sum over every answer of the number of answers matching the new
\* session of that answer after the guess and the scores are in ascending
\* order; and for entries of any number the call is well defined: it does
\* not die, and what it prints are the leading elements of guess_scores.
C15_RankedAndDefined ==
    rank.status \in {"print", "returned", "crashed"} =>
        LET answers == SubSeq(rank.entries, 1, rank.num_answers)
            gs      == rank.guess_scores
        IN  /\ \A k \in 1..Len(gs) :
                  gs[k].score = SumScores(answers, rank.entries[gs[k].idx + 1],
                                          rank.num_answers)
            /\ \A a, b \in 1..Len(gs) : a < b => gs[a].score <= gs[b].score
            /\ rank.status # "crashed"
            /\ Len(rank.printed) <= Len(gs)
            /\ rank.printed = SubSeq(gs, 1, Len(rank.printed))

====
